---- MODULE Spec2Model ----
(***************************************************************************)
(* A model of libmatoya's JSON engine (src/src/json.c): the tagged value   *)
(* tree kept in a heap of nodes, the serializer, the stack-machine parser  *)
(* and the typed accessor layer.                                           *)
(*                                                                         *)
(* Text is a sequence of one-character strings.  A C buffer is a sequence  *)
(* of characters in which NUL stands for the terminating zero byte.        *)
(* A pointer to a node is the node's index in the heap, NULL is 0.         *)
(***************************************************************************)
EXTENDS Integers, Sequences, FiniteSets, TLC

VARIABLES
  heap,     \* every MTY_JSON node ever allocated, by address
  refs,     \* the caller's MTY_JSON * variables
  last,     \* the last call, when it was a getter, a serialize or a duplicate:
            \* its arguments and what it returned
  dup,      \* the source and the result of the last MTY_JSONDuplicate call
  pc,       \* where MTY_JSONParse is: "scan", "done" or "ub"
  input,    \* the text handed to MTY_JSONParse
  x,        \* MTY_JSONParse: the scan position
  spos,     \* MTY_JSONParse: the stack position (size_t)
  stack,    \* MTY_JSONParse: MTY_JSON *stack[128]
  kv,       \* MTY_JSONParse: bool kv[128]
  key,      \* MTY_JSONParse: char *key, the pending key
  iter,     \* number of scan-loop iterations run so far (capped)
  adv,      \* by how much the last iteration moved x
  ub,       \* undefined behaviour met: "no", "index" (stack/kv indexed
            \* outside their entries) or "key" (a null key given to the map)
  result,   \* what MTY_JSONParse returned
  orig      \* the tree whose serialization is being parsed, if any

vars == <<heap, refs, last, dup, pc, input, x, spos, stack, kv, key, iter, adv,
          ub, result, orig>>

parseVars == <<pc, input, x, spos, stack, kv, key, iter, adv, ub, result,
              orig>>
apiVars == <<refs, last, dup>>

----------------------------------------------------------------------------
(* Bounds of the model *)

MaxLen == 2       \* length of the enumerated parser inputs
MaxNodes == 4     \* nodes the API specification allocates
MaxReadNodes == 2 \* nodes allocated before a getter or the serializer is called
MaxIter == 3      \* the iteration counter stops counting here
NRefs == 2        \* MTY_JSON * variables the caller holds

(* Program constants *)

StackSize == 128
\* the largest size_t; it stands for 2^64 - 1, which the checker's integers
\* cannot hold: all that is used of it is that 0 - 1 wraps to it
SIZE_MAX == 2147483647

NULL == 0
NUL == "NUL"
QUOTE == "\""

JSON_BOOLEAN == "JSON_BOOLEAN"
JSON_NUMBER == "JSON_NUMBER"
JSON_STRING == "JSON_STRING"
JSON_OBJECT == "JSON_OBJECT"
JSON_ARRAY == "JSON_ARRAY"
JSON_NULL == "JSON_NULL"

json_type == {JSON_BOOLEAN, JSON_NUMBER, JSON_STRING, JSON_OBJECT, JSON_ARRAY,
              JSON_NULL}

(* struct MTY_JSON as MTY_Alloc returns it: all bytes zero.  The union is  *)
(* kept as separate fields; freed counts the MTY_Free calls on the node,   *)
(* and a freed node keeps nothing but that count.                          *)
MTY_JSON == [type |-> JSON_BOOLEAN, boolean |-> FALSE, number |-> 0,
             string |-> <<>>, object |-> <<>>, elements |-> <<>>, freed |-> 0]

Min(a, b) == IF a < b THEN a ELSE b

Range(s) == {s[i] : i \in 1..Len(s)}

----------------------------------------------------------------------------
(* The backing map of an Object (MTY_Hash): a list of [key, val] entries,  *)
(* enumerated in list order.                                               *)

HashIndex(hash, k) ==
  IF \E i \in 1..Len(hash) : hash[i].key = k
  THEN CHOOSE i \in 1..Len(hash) : hash[i].key = k
  ELSE 0

MTY_HashGet(hash, k) ==
  IF HashIndex(hash, k) = 0 THEN NULL ELSE hash[HashIndex(hash, k)].val

\* the map after set; the previous value is MTY_HashGet(hash, k)
MTY_HashSet(hash, k, v) ==
  IF HashIndex(hash, k) = 0
  THEN Append(hash, [key |-> k, val |-> v])
  ELSE [hash EXCEPT ![HashIndex(hash, k)].val = v]

\* the map after pop; the removed value is MTY_HashGet(hash, k)
MTY_HashPop(hash, k) ==
  LET i == HashIndex(hash, k)
  IN IF i = 0 THEN hash
     ELSE SubSeq(hash, 1, i - 1) \o SubSeq(hash, i + 1, Len(hash))

\* the keys MTY_HashGetNextKey yields over one full pass
MTY_HashGetNextKey(hash) == [i \in 1..Len(hash) |-> hash[i].key]

HashValues(hash) == [i \in 1..Len(hash) |-> hash[i].val]

----------------------------------------------------------------------------
(* Value model *)

\* a const void *val argument of json_create
NullPtr == [null |-> TRUE, boolean |-> FALSE, number |-> 0, string |-> <<>>]
BoolPtr(b) == [null |-> FALSE, boolean |-> b, number |-> 0, string |-> <<>>]
NumPtr(n) == [null |-> FALSE, boolean |-> FALSE, number |-> n, string |-> <<>>]
StrPtr(s) == [null |-> FALSE, boolean |-> FALSE, number |-> 0, string |-> s]

json_create(type, val) ==
  CASE type = JSON_BOOLEAN ->
         [MTY_JSON EXCEPT !.type = type,
                          !.boolean = IF val.null THEN FALSE ELSE val.boolean]
    [] type = JSON_NUMBER ->
         [MTY_JSON EXCEPT !.type = type,
                          !.number = IF val.null THEN 0 ELSE val.number]
    [] type = JSON_STRING ->
         [MTY_JSON EXCEPT !.type = type,
                          !.string = IF val.null THEN <<>> ELSE val.string]
    [] OTHER -> [MTY_JSON EXCEPT !.type = type]

\* the address the next MTY_Alloc returns
NewPtr(h) == Len(h) + 1

RECURSIVE json_delete(_, _)
RECURSIVE DeleteEach(_, _)

DeleteEach(h, ptrs) ==
  IF ptrs = <<>> THEN h
  ELSE DeleteEach(json_delete(h, Head(ptrs)), Tail(ptrs))

json_delete(h, ptr) ==
  IF ptr = NULL THEN h
  ELSE LET item == h[ptr]
           h1 == CASE item.type = JSON_OBJECT ->
                        DeleteEach(h, HashValues(item.object))
                   [] item.type = JSON_ARRAY -> DeleteEach(h, item.elements)
                   [] OTHER -> h
       IN [h1 EXCEPT ![ptr] = [MTY_JSON EXCEPT !.freed = h1[ptr].freed + 1]]

MTY_JSONObjGetItem(h, json, k) ==
  IF json = NULL \/ h[json].type # JSON_OBJECT THEN NULL
  ELSE MTY_HashGet(h[json].object, k)

MTY_JSONObjGetNextKey(h, json) ==
  IF json = NULL \/ h[json].type # JSON_OBJECT THEN <<>>
  ELSE MTY_HashGetNextKey(h[json].object)

\* a set that does not reject a null value
MTY_JSONObjSetItem_NoValueCheck(h, json, k, value) ==
  IF json = NULL \/ h[json].type # JSON_OBJECT THEN h
  ELSE json_delete([h EXCEPT ![json].object = MTY_HashSet(@, k, value)],
                   MTY_HashGet(h[json].object, k))

\* a set that installs the value and forgets the one it replaced
MTY_JSONObjSetItem_NoDelete(h, json, k, value) ==
  IF json = NULL \/ value = NULL \/ h[json].type # JSON_OBJECT THEN h
  ELSE [h EXCEPT ![json].object = MTY_HashSet(@, k, value)]

MTY_JSONObjSetItem(h, json, k, value) ==
  IF json = NULL \/ value = NULL \/ h[json].type # JSON_OBJECT THEN h
  ELSE json_delete([h EXCEPT ![json].object = MTY_HashSet(@, k, value)],
                   MTY_HashGet(h[json].object, k))

MTY_JSONObjDeleteItem(h, json, k) ==
  IF json = NULL \/ h[json].type # JSON_OBJECT THEN h
  ELSE json_delete([h EXCEPT ![json].object = MTY_HashPop(@, k)],
                   MTY_HashGet(h[json].object, k))

MTY_JSONArrayGetLength(h, json) ==
  IF json = NULL \/ h[json].type # JSON_ARRAY THEN 0
  ELSE Len(h[json].elements)

\* index is 0-based, as in the C code
MTY_JSONArrayGetItem(h, json, index) ==
  IF json = NULL \/ h[json].type # JSON_ARRAY THEN NULL
  ELSE IF index < Len(h[json].elements) THEN h[json].elements[index + 1]
  ELSE NULL

\* an append that puts the new element first
MTY_JSONArrayAppendItem_Prepend(h, json, value) ==
  IF json = NULL \/ value = NULL \/ h[json].type # JSON_ARRAY THEN h
  ELSE [h EXCEPT ![json].elements = <<value>> \o @]

MTY_JSONArrayAppendItem(h, json, value) ==
  IF json = NULL \/ value = NULL \/ h[json].type # JSON_ARRAY THEN h
  ELSE [h EXCEPT ![json].elements = Append(@, value)]

----------------------------------------------------------------------------
(* Output *)

\* append strlen(str) + 1 bytes at the old *len: the text, then its NUL
json_output_raw(str, output) == output \o str \o <<NUL>>

DigitChars == <<"0", "1", "2", "3", "4", "5", "6", "7", "8", "9">>

RECURSIVE Decimal(_)
Decimal(n) ==
  IF n < 10 THEN <<DigitChars[n + 1]>>
  ELSE Decimal(n \div 10) \o <<DigitChars[(n % 10) + 1]>>

\* snprintf(str, 64, "%f", number) for an integral number
FormatF(n) ==
  (IF n < 0 THEN <<"-">> ELSE <<>>) \o Decimal(IF n < 0 THEN -n ELSE n)
    \o <<".", "0", "0", "0", "0", "0", "0">>

json_output_number(number, output) == json_output_raw(FormatF(number), output)

json_output_string(str, output) ==
  json_output_raw(<<QUOTE>>,
    json_output_raw(str, json_output_raw(<<QUOTE>>, output)))

RECURSIVE json_output(_, _, _)
RECURSIVE OutputMembers(_, _, _, _, _)
RECURSIVE OutputElements(_, _, _, _)

\* the for loop of case JSON_OBJECT, from the i-th key on
OutputMembers(h, item, keys, i, output) ==
  IF i > Len(keys) THEN output
  ELSE LET o1 == IF i > 1 THEN json_output_raw(<<",">>, output) ELSE output
           o2 == json_output_raw(<<":">>, json_output_string(keys[i], o1))
       IN OutputMembers(h, item, keys, i + 1,
            json_output(h, MTY_JSONObjGetItem(h, item, keys[i]), o2))

\* the for loop of case JSON_ARRAY, from index n (0-based) on
OutputElements(h, item, n, output) ==
  IF n >= Len(h[item].elements) THEN output
  ELSE LET o1 == IF n > 0 THEN json_output_raw(<<",">>, output) ELSE output
       IN OutputElements(h, item, n + 1,
            json_output(h, MTY_JSONArrayGetItem(h, item, n), o1))

json_output(h, item, output) ==
  CASE h[item].type = JSON_BOOLEAN ->
         json_output_raw(IF h[item].boolean THEN <<"t", "r", "u", "e">>
                         ELSE <<"f", "a", "l", "s", "e">>, output)
    [] h[item].type = JSON_NUMBER ->
         json_output_number(h[item].number, output)
    [] h[item].type = JSON_STRING ->
         json_output_string(h[item].string, output)
    [] h[item].type = JSON_NULL ->
         json_output_raw(<<"n", "u", "l", "l">>, output)
    [] h[item].type = JSON_OBJECT ->
         json_output_raw(<<"}">>,
           OutputMembers(h, item, MTY_JSONObjGetNextKey(h, item), 1,
             json_output_raw(<<"{">>, output)))
    [] h[item].type = JSON_ARRAY ->
         json_output_raw(<<"]">>,
           OutputElements(h, item, 0, json_output_raw(<<"[">>, output)))

json_print(h, item) == json_output(h, item, <<>>)

\* a serializer that returns the empty text for none
MTY_JSONSerialize_Empty(h, json) ==
  IF json = NULL THEN <<NUL>>
  ELSE json_print(h, json)

MTY_JSONSerialize(h, json) ==
  IF json = NULL THEN <<"n", "u", "l", "l", NUL>>
  ELSE json_print(h, json)

\* a char * read as C reads it: the bytes before the first NUL
CStr(buf) ==
  IF \E i \in 1..Len(buf) : buf[i] = NUL
  THEN SubSeq(buf, 1, (CHOOSE i \in 1..Len(buf) :
                         buf[i] = NUL /\ \A j \in 1..(i - 1) : buf[j] # NUL) - 1)
  ELSE buf

----------------------------------------------------------------------------
(* Duplicate *)

\* *((const bool *) &json->value): the first byte of the union.  A Boolean
\* holds its value there, a Null node is all zero, the number 0.0 is all
\* zero; for any other number the byte depends on the representation of
\* double, and rb is the set of nodes where it reads as true.
ValueAsBool(h, json, rb) ==
  CASE h[json].type = JSON_BOOLEAN -> h[json].boolean
    [] h[json].type = JSON_NUMBER -> h[json].number # 0 /\ json \in rb
    [] OTHER -> FALSE

RECURSIVE MTY_JSONDuplicate(_, _, _)
RECURSIVE DuplicateMembers(_, _, _, _, _, _)
RECURSIVE DuplicateElements(_, _, _, _, _)

\* the for loop of case JSON_OBJECT, from the i-th key on
DuplicateMembers(h, json, item, keys, i, rb) ==
  IF i > Len(keys) THEN h
  ELSE LET d == MTY_JSONDuplicate(h, MTY_JSONObjGetItem(h, json, keys[i]), rb)
       IN DuplicateMembers(MTY_JSONObjSetItem(d.h, item, keys[i], d.ptr),
                           json, item, keys, i + 1, rb)

\* the for loop of case JSON_ARRAY, from index n (0-based) on
DuplicateElements(h, json, item, n, rb) ==
  IF n >= Len(h[json].elements) THEN h
  ELSE LET d == MTY_JSONDuplicate(h, h[json].elements[n + 1], rb)
       IN DuplicateElements(MTY_JSONArrayAppendItem(d.h, item, d.ptr),
                            json, item, n + 1, rb)

\* a duplicate that copies a container's node but shares its children
MTY_JSONDuplicate_Shallow(h, json, rb) ==
  CASE h[json].type \in {JSON_BOOLEAN, JSON_NUMBER, JSON_NULL} ->
         [h |-> Append(h, json_create(JSON_BOOLEAN,
                                      BoolPtr(ValueAsBool(h, json, rb)))),
          ptr |-> NewPtr(h)]
    [] h[json].type = JSON_STRING ->
         [h |-> Append(h, json_create(JSON_STRING, StrPtr(h[json].string))),
          ptr |-> NewPtr(h)]
    [] h[json].type = JSON_OBJECT ->
         [h |-> Append(h, [json_create(JSON_OBJECT, NullPtr)
                             EXCEPT !.object = h[json].object]),
          ptr |-> NewPtr(h)]
    [] h[json].type = JSON_ARRAY ->
         [h |-> Append(h, [json_create(JSON_ARRAY, NullPtr)
                             EXCEPT !.elements = h[json].elements]),
          ptr |-> NewPtr(h)]

\* the heap after the call and the pointer returned
MTY_JSONDuplicate(h, json, rb) ==
  CASE h[json].type \in {JSON_BOOLEAN, JSON_NUMBER, JSON_NULL} ->
         [h |-> Append(h, json_create(JSON_BOOLEAN,
                                      BoolPtr(ValueAsBool(h, json, rb)))),
          ptr |-> NewPtr(h)]
    [] h[json].type = JSON_STRING ->
         [h |-> Append(h, json_create(JSON_STRING, StrPtr(h[json].string))),
          ptr |-> NewPtr(h)]
    [] h[json].type = JSON_OBJECT ->
         [h |-> DuplicateMembers(Append(h, json_create(JSON_OBJECT, NullPtr)),
                                 json, NewPtr(h),
                                 MTY_JSONObjGetNextKey(h, json), 1, rb),
          ptr |-> NewPtr(h)]
    [] h[json].type = JSON_ARRAY ->
         [h |-> DuplicateElements(Append(h, json_create(JSON_ARRAY, NullPtr)),
                                  json, NewPtr(h), 0, rb),
          ptr |-> NewPtr(h)]

----------------------------------------------------------------------------
(* Reading the heap as trees *)

RECURSIVE Reach(_, _)
\* the nodes of the tree at ptr
Reach(h, ptr) ==
  IF ptr = NULL THEN {}
  ELSE {ptr} \cup UNION {Reach(h, c) :
         c \in CASE h[ptr].type = JSON_OBJECT -> Range(HashValues(h[ptr].object))
                 [] h[ptr].type = JSON_ARRAY -> Range(h[ptr].elements)
                 [] OTHER -> {}}

None == [type |-> "none", boolean |-> FALSE, number |-> 0, string |-> <<>>,
         elements |-> <<>>, members |-> {}]

RECURSIVE Tree(_, _)
\* the value of the tree at ptr: variant, payload, children in order,
\* members as an unordered set of key/value pairs
Tree(h, ptr) ==
  IF ptr = NULL THEN None
  ELSE LET n == h[ptr]
       IN [type |-> n.type,
           boolean |-> IF n.type = JSON_BOOLEAN THEN n.boolean ELSE FALSE,
           number |-> IF n.type = JSON_NUMBER THEN n.number ELSE 0,
           string |-> IF n.type = JSON_STRING THEN n.string ELSE <<>>,
           elements |-> IF n.type = JSON_ARRAY
                        THEN [i \in 1..Len(n.elements) |-> Tree(h, n.elements[i])]
                        ELSE <<>>,
           members |-> IF n.type = JSON_OBJECT
                       THEN {<<n.object[i].key, Tree(h, n.object[i].val)>> :
                               i \in 1..Len(n.object)}
                       ELSE {}]

----------------------------------------------------------------------------
(* Input *)

\* a char * of the parser: NULL, or the text it points to
NullStr == [null |-> TRUE, str |-> <<>>]
Str(s) == [null |-> FALSE, str |-> s]

\* spos - 1 computed in size_t
Top(sp) == IF sp = 0 THEN SIZE_MAX ELSE sp - 1

InStack(i) == i \in 0..(StackSize - 1)

\* strstr(input + x, lit) == input + x
StartsWith(inp, pos, lit) ==
  /\ pos + Len(lit) <= Len(inp)
  /\ \A i \in 1..Len(lit) : inp[pos + i] = lit[i]

\* The parser's state is a record s of heap, x, spos, stack, kv, key, ub.
\* json_parse_set_item(&stack[slot], key, item)
json_parse_set_item(s, slot, k, item) ==
  IF s.stack[slot] = NULL THEN [s EXCEPT !.stack[slot] = item]
  ELSE IF s.heap[s.stack[slot]].type = JSON_OBJECT
  THEN IF k.null THEN [s EXCEPT !.ub = "key"]
       ELSE [s EXCEPT !.heap = MTY_JSONObjSetItem(@, s.stack[slot], k.str, item)]
  ELSE IF s.heap[s.stack[slot]].type = JSON_ARRAY
  THEN [s EXCEPT !.heap = MTY_JSONArrayAppendItem(@, s.stack[slot], item)]
  ELSE s

\* the state after x += json_parse_boolean(input + x, key, &stack[slot])
json_parse_boolean(s, inp, slot) ==
  LET istrue == StartsWith(inp, s.x, <<"t", "r", "u", "e">>)
      isfalse == StartsWith(inp, s.x, <<"f", "a", "l", "s", "e">>)
      consumed == IF istrue THEN 4 ELSE IF isfalse THEN 5 ELSE 0
      s1 == IF consumed > 0
            THEN json_parse_set_item(
                   [s EXCEPT !.heap = Append(@, json_create(JSON_BOOLEAN,
                                                            BoolPtr(istrue)))],
                   slot, s.key, NewPtr(s.heap))
            ELSE s
  IN [s1 EXCEPT !.x = @ + consumed]

\* the state after x += json_parse_number(input + x, key, &stack[slot])
json_parse_number(s, inp, slot) == [s EXCEPT !.x = @ + 0]

\* json_parse_string_raw(input + pos, &parsed): consumed and *parsed
json_parse_string_raw(inp, pos) ==
  LET first == IF inp[pos + 1] = QUOTE THEN 1 ELSE 0
      from == pos + first
      found == \E e \in (from + 1)..Len(inp) : inp[e] = QUOTE
      end == CHOOSE e \in (from + 1)..Len(inp) :
               inp[e] = QUOTE /\ \A j \in (from + 1)..(e - 1) : inp[j] # QUOTE
  IN IF found
     THEN [consumed |-> first + (end - 1 - from) + 1,
           parsed |-> Str(SubSeq(inp, from + 1, end - 1))]
     ELSE [consumed |-> first, parsed |-> NullStr]

\* the state after x += json_parse_string(input + x, key, &stack[slot])
json_parse_string(s, inp, slot) ==
  LET r == json_parse_string_raw(inp, s.x)
      val == IF r.parsed.null THEN NullPtr ELSE StrPtr(r.parsed.str)
      s1 == IF r.consumed > 0
            THEN json_parse_set_item(
                   [s EXCEPT !.heap = Append(@, json_create(JSON_STRING, val))],
                   slot, s.key, NewPtr(s.heap))
            ELSE s
  IN [s1 EXCEPT !.x = @ + r.consumed]

\* the state after x += json_parse_null(input + x, key, &stack[slot])
json_parse_null(s, inp, slot) == [s EXCEPT !.x = @ + 0]

\* stack[spos++] = json_create(type, NULL); kv[spos - 1] = flag;
OpenContainer(s, type, flag) ==
  IF ~InStack(s.spos) THEN [s EXCEPT !.ub = "index"]
  ELSE [s EXCEPT !.heap = Append(@, json_create(type, NullPtr)),
                 !.stack[s.spos] = NewPtr(s.heap),
                 !.spos = @ + 1,
                 !.kv[s.spos] = flag]

\* kv[spos - 1] = false; spos--;
CloseContainer(s) ==
  [s EXCEPT !.kv[Top(s.spos)] = FALSE, !.spos = Top(s.spos)]

NumberStart == {"+", "-", "0", "1", "2", "3", "4", "5", "6", "7", "8", "9"}

\* one iteration of the for loop of MTY_JSONParse on state s
Scan(s, inp) ==
  LET c == inp[s.x + 1]
      top == Top(s.spos)
  IN IF ~InStack(top) THEN [s EXCEPT !.ub = "index"]
     ELSE CASE c \in {"t", "f"} -> json_parse_boolean(s, inp, top)
            [] c \in NumberStart -> json_parse_number(s, inp, top)
            [] c = QUOTE ->
                 IF s.kv[top]
                 THEN LET r == json_parse_string_raw(inp, s.x)
                      IN [s EXCEPT !.key = r.parsed, !.x = @ + r.consumed]
                 ELSE json_parse_string(s, inp, top)
            [] c = "n" -> json_parse_null(s, inp, top)
            [] c = "{" -> OpenContainer(s, JSON_OBJECT, TRUE)
            [] c = "}" -> CloseContainer(s)
            [] c = ":" -> [s EXCEPT !.kv[top] = FALSE]
            [] c = "," -> [s EXCEPT !.kv[top] = TRUE]
            [] c = "[" -> OpenContainer(s, JSON_ARRAY, FALSE)
            [] c = "]" -> CloseContainer(s)
            [] OTHER -> [s EXCEPT !.x = @ + 1]

ParserState ==
  [heap |-> heap, x |-> x, spos |-> spos, stack |-> stack, kv |-> kv,
   key |-> key, ub |-> "no"]

\* the body of the for loop, once
ParseIteration ==
  /\ pc = "scan"
  /\ x < Len(input)
  /\ LET s == Scan(ParserState, input)
     IN /\ heap' = s.heap
        /\ x' = s.x
        /\ spos' = s.spos
        /\ stack' = s.stack
        /\ kv' = s.kv
        /\ key' = s.key
        /\ ub' = s.ub
        /\ adv' = s.x - x
        /\ pc' = IF s.ub = "no" THEN "scan" ELSE "ub"
  /\ iter' = Min(iter + 1, MaxIter)
  /\ UNCHANGED <<input, result, orig, refs, last, dup>>

\* the loop ends: MTY_Free(key); return stack[0];
ParseReturn ==
  /\ pc = "scan"
  /\ x >= Len(input)
  /\ pc' = "done"
  /\ key' = NullStr
  /\ result' = stack[0]
  /\ UNCHANGED <<heap, input, x, spos, stack, kv, iter, adv, ub, orig, refs,
                 last, dup>>

\* after undefined behaviour the call may return anything, or never return
ParseUndefined ==
  /\ pc = "ub"
  /\ pc' = "done"
  /\ \E r \in {NULL} \cup (1..Len(heap)) : result' = r
  /\ UNCHANGED <<heap, input, x, spos, stack, kv, key, iter, adv, ub, orig,
                 refs, last, dup>>

----------------------------------------------------------------------------
(* The parser run on the inputs of a bounded set *)

Alphabet == {"[", "}", ",", QUOTE, "a", "n"}

RECURSIVE Texts(_)
\* every text over Alphabet of length n or less
Texts(n) ==
  IF n = 0 THEN {<<>>}
  ELSE Texts(n - 1) \cup
       {Append(t, c) : t \in {u \in Texts(n - 1) : Len(u) = n - 1}, c \in Alphabet}

SpecExample ==
  <<"{", QUOTE, "a", QUOTE, ":", "t", "r", "u", "e", ",", QUOTE, "b", QUOTE,
    ":", "[", "1", ",", "2", ",", "3", "]", "}">>

\* an Array of two string literals
ArrayExample == <<"[", QUOTE, "a", QUOTE, ",", QUOTE, "b", QUOTE, "]">>

\* as many nested Arrays as the stack has entries
Nest128 == [i \in 1..StackSize |-> "["]

NamedInputs ==
  {<<"t", "r", "u", "e">>, <<"f", "a", "l", "s", "e">>, <<"n", "u", "l", "l">>,
   <<"t", "x">>, <<"f">>, <<"1">>, <<"-", "1">>, <<"+">>, <<"{">>, <<"]">>,
   <<":">>, <<" ">>, <<"{", "}">>, <<"[", "]">>,
   <<QUOTE, "a", "b", QUOTE>>, <<QUOTE, "a", "b">>,
   <<"t", "r", "u", "e", " ", "f", "a", "l", "s", "e">>,
   <<"t", "r", "u", "e", "}">>,
   <<" ", QUOTE, "a", QUOTE, " ", QUOTE, "b", QUOTE>>,
   SpecExample, ArrayExample, Nest128}

Inputs == Texts(MaxLen) \cup NamedInputs

\* Trees of Boolean, String, Array and Object values, built by the
\* operations of the value model; the root is the first node.
RtStrings == {<<>>, <<"a", "b">>}

RtLeaves ==
  {json_create(JSON_BOOLEAN, BoolPtr(b)) : b \in BOOLEAN}
    \cup {json_create(JSON_STRING, StrPtr(str)) : str \in RtStrings}

\* the heap h with a new leaf appended to the Array at json
WithElement(h, json, leaf) ==
  MTY_JSONArrayAppendItem(Append(h, leaf), json, NewPtr(h))

\* the heap h with a new leaf set under k in the Object at json
WithMember(h, json, k, leaf) ==
  MTY_JSONObjSetItem(Append(h, leaf), json, k, NewPtr(h))

EmptyArray == <<json_create(JSON_ARRAY, NullPtr)>>
EmptyObject == <<json_create(JSON_OBJECT, NullPtr)>>

RoundTripHeaps ==
  {<<leaf>> : leaf \in RtLeaves}
    \cup {EmptyArray, EmptyObject}
    \cup {WithElement(EmptyArray, 1, leaf) : leaf \in RtLeaves}
    \cup {WithElement(WithElement(EmptyArray, 1, l1), 1, l2) :
            l1 \in RtLeaves, l2 \in RtLeaves}
    \cup {WithMember(EmptyObject, 1, <<"a">>, leaf) : leaf \in RtLeaves}
    \cup {WithMember(WithMember(EmptyObject, 1, <<"a">>, l1), 1, <<"b">>, l2) :
            l1 \in RtLeaves, l2 \in RtLeaves}
    \cup {WithElement(MTY_JSONObjSetItem(Append(EmptyObject,
                                               json_create(JSON_ARRAY, NullPtr)),
                                        1, <<"a">>, 2), 2, leaf) :
            leaf \in RtLeaves}

\* what MTY_JSONParse is given: a text of Inputs, or the text
\* MTY_JSONSerialize returns for a tree (orig is that tree)
Sources ==
  {[text |-> t, tree |-> None] : t \in Inputs}
    \cup {[text |-> CStr(MTY_JSONSerialize(h, 1)), tree |-> Tree(h, 1)] :
            h \in RoundTripHeaps}

NoCall == [op |-> "none"]
NoDup == [src |-> NULL, dst |-> NULL]

ParseInit ==
  /\ heap = <<>>
  /\ \E src \in Sources : input = src.text /\ orig = src.tree
  /\ pc = "scan"
  /\ x = 0
  /\ spos = 1
  /\ stack = [i \in 0..(StackSize - 1) |-> NULL]
  /\ kv = [i \in 0..(StackSize - 1) |-> FALSE]
  /\ key = NullStr
  /\ iter = 0
  /\ adv = 0
  /\ ub = "no"
  /\ result = NULL
  /\ refs = <<>>
  /\ last = NoCall
  /\ dup = NoDup

ParseNext == ParseIteration \/ ParseReturn \/ ParseUndefined

SpecParse == ParseInit /\ [][ParseNext]_vars

----------------------------------------------------------------------------
(* Typed getters and setters *)

\* (int16_t) v, (int8_t) v, and the same bytes read back as unsigned
Int16(v) == ((v + 32768) % 65536) - 32768
Int8(v) == ((v + 128) % 256) - 128
UInt16(v) == v % 65536
UInt8(v) == v % 256

\* lrint(number): the numbers of the model are integral and fit an int32_t
lrint(number) == number

\* Each getter yields what it returns and what *value holds afterwards,
\* given out0, what *value held before.
\* a copy that keeps one character less than fits
json_to_string_Short(h, json, out0, size) ==
  IF json = NULL \/ h[json].type # JSON_STRING THEN [ret |-> FALSE, out |-> out0]
  ELSE [ret |-> TRUE,
        out |-> IF size = 0 THEN out0
                ELSE SubSeq(h[json].string, 1, Min(Len(h[json].string), size - 2))]

json_to_string(h, json, out0, size) ==
  IF json = NULL \/ h[json].type # JSON_STRING THEN [ret |-> FALSE, out |-> out0]
  ELSE [ret |-> TRUE,
        out |-> IF size = 0 THEN out0
                ELSE SubSeq(h[json].string, 1, Min(Len(h[json].string), size - 1))]

json_to_int(h, json, out0) ==
  IF json = NULL \/ h[json].type # JSON_NUMBER THEN [ret |-> FALSE, out |-> out0]
  ELSE [ret |-> TRUE, out |-> lrint(h[json].number)]

json_to_int16(h, json, out0) ==
  LET r == json_to_int(h, json, 0)
  IN [ret |-> r.ret, out |-> Int16(r.out)]

json_to_int8(h, json, out0) ==
  LET r == json_to_int(h, json, 0)
  IN [ret |-> r.ret, out |-> Int8(r.out)]

json_to_float(h, json, out0) ==
  IF json = NULL \/ h[json].type # JSON_NUMBER THEN [ret |-> FALSE, out |-> out0]
  ELSE [ret |-> TRUE, out |-> h[json].number]

json_to_bool(h, json, out0) ==
  IF json = NULL \/ h[json].type # JSON_BOOLEAN THEN [ret |-> FALSE, out |-> out0]
  ELSE [ret |-> TRUE, out |-> h[json].boolean]

json_is_null(h, json) == json # NULL /\ h[json].type = JSON_NULL

\* the getters by object key (MTY_JSONObjGet...) and by array index
\* (MTY_JSONArrayGet...), item being the member they looked up
ObjGetKinds == {"string", "int", "uint", "int8", "uint8", "int16", "uint16",
                "float", "bool"}
ArrayGetKinds == {"string", "int", "uint", "float", "bool"}

Getter(kind, h, item, out0, size) ==
  CASE kind = "string" -> json_to_string(h, item, out0, size)
    [] kind = "int" -> json_to_int(h, item, out0)
    [] kind = "uint" -> json_to_int(h, item, out0)
    [] kind = "int8" -> json_to_int8(h, item, out0)
    [] kind = "uint8" ->
         [json_to_int8(h, item, out0) EXCEPT !.out = UInt8(@)]
    [] kind = "int16" -> json_to_int16(h, item, out0)
    [] kind = "uint16" ->
         [json_to_int16(h, item, out0) EXCEPT !.out = UInt16(@)]
    [] kind = "float" -> json_to_float(h, item, out0)
    [] kind = "bool" -> json_to_bool(h, item, out0)

\* the Value each typed setter constructs (MTY_JSONObjSetString .. SetNull)
SetKinds == {"string", "int", "uint", "float", "bool", "null"}

SetterValue(kind, val) ==
  CASE kind = "string" -> json_create(JSON_STRING, StrPtr(val))
    [] kind \in {"int", "uint", "float"} -> json_create(JSON_NUMBER, NumPtr(val))
    [] kind = "bool" -> json_create(JSON_BOOLEAN, BoolPtr(val))
    [] kind = "null" -> json_create(JSON_NULL, NullPtr)

\* MTY_JSONObjSet<kind>(json, key, val)
MTY_JSONObjSetTyped(h, json, kind, k, val) ==
  MTY_JSONObjSetItem(Append(h, SetterValue(kind, val)), json, k, NewPtr(h))

\* MTY_JSONDestroy(&ref): the heap and the reference afterwards
\* a destroy that leaves the caller's reference as it was
MTY_JSONDestroy_KeepRef(h, ref) ==
  IF ref = NULL THEN [h |-> h, ref |-> ref]
  ELSE [h |-> json_delete(h, ref), ref |-> ref]

MTY_JSONDestroy(h, ref) ==
  IF ref = NULL THEN [h |-> h, ref |-> ref]
  ELSE [h |-> json_delete(h, ref), ref |-> NULL]

----------------------------------------------------------------------------
(* The API called by a client, in any order *)

Keys == {<<"a">>, <<"b">>}
Numbers == {0, 200}
Strings == {<<"x", "y">>}
BufSizes == {3}

SetValues(kind) ==
  CASE kind = "string" -> Strings
    [] kind \in {"int", "uint", "float"} -> Numbers
    [] kind = "bool" -> BOOLEAN
    [] kind = "null" -> {0}

\* what the caller's output parameter holds before a getter call
Out0(kind) ==
  CASE kind = "string" -> <<"o">>
    [] kind = "bool" -> TRUE
    [] OTHER -> 7

Live(h) == {p \in 1..Len(h) : h[p].freed = 0}

\* the variable a client stores a new tree in: its first free one
FreeRef(r) == refs[r] = NULL /\ \A q \in 1..(r - 1) : refs[q] # NULL

\* the trees a client may pass: none, or a node not yet destroyed
Targets == {NULL} \cup Live(heap)

\* The getters and MTY_JSONSerialize change no tree, so every tree a client
\* can build is built by calls of the other operations alone: the runs
\* modelled make calls in any order and end with a getter or serializer call.
Running == last.op \notin {"get", "serialize"}

ObjCreate(r) ==
  /\ Running
  /\ FreeRef(r)
  /\ Len(heap) < MaxNodes
  /\ heap' = Append(heap, json_create(JSON_OBJECT, NullPtr))
  /\ refs' = [refs EXCEPT ![r] = NewPtr(heap)]
  /\ last' = NoCall
  /\ UNCHANGED <<dup, parseVars>>

ArrayCreate(r) ==
  /\ Running
  /\ FreeRef(r)
  /\ Len(heap) < MaxNodes
  /\ heap' = Append(heap, json_create(JSON_ARRAY, NullPtr))
  /\ refs' = [refs EXCEPT ![r] = NewPtr(heap)]
  /\ last' = NoCall
  /\ UNCHANGED <<dup, parseVars>>

\* MTY_JSONObjSetItem(json, k, refs[r]): the Object owns the value afterwards
ObjSetItem(json, k, r) ==
  /\ Running
  /\ json \notin Reach(heap, refs[r])
  /\ heap' = MTY_JSONObjSetItem(heap, json, k, refs[r])
  /\ refs' = IF heap' # heap THEN [refs EXCEPT ![r] = NULL] ELSE refs
  /\ last' = NoCall
  /\ UNCHANGED <<dup, parseVars>>

\* MTY_JSONArrayAppendItem(json, refs[r]): the Array owns the value afterwards
ArrayAppendItem(json, r) ==
  /\ Running
  /\ json \notin Reach(heap, refs[r])
  /\ heap' = MTY_JSONArrayAppendItem(heap, json, refs[r])
  /\ refs' = IF heap' # heap THEN [refs EXCEPT ![r] = NULL] ELSE refs
  /\ last' = NoCall
  /\ UNCHANGED <<dup, parseVars>>

ObjSetTyped(json, kind, k, val) ==
  /\ Running
  /\ Len(heap) < MaxNodes
  /\ heap' = MTY_JSONObjSetTyped(heap, json, kind, k, val)
  /\ last' = NoCall
  /\ UNCHANGED <<refs, dup, parseVars>>

ObjDeleteItem(json, k) ==
  /\ Running
  /\ heap' = MTY_JSONObjDeleteItem(heap, json, k)
  /\ last' = NoCall
  /\ UNCHANGED <<refs, dup, parseVars>>

\* the nodes of a tree whose first union byte the representation decides
NonZeroNumbers(h, json) ==
  {p \in Reach(h, json) : h[p].type = JSON_NUMBER /\ h[p].number # 0}

\* refs[r] = MTY_JSONDuplicate(json)
Duplicate(json, r) ==
  /\ Running
  /\ json # NULL
  /\ FreeRef(r)
  /\ Len(heap) + Cardinality(Reach(heap, json)) <= MaxNodes
  /\ \E rb \in SUBSET NonZeroNumbers(heap, json) :
       LET d == MTY_JSONDuplicate(heap, json, rb)
       IN /\ heap' = d.h
          /\ refs' = [refs EXCEPT ![r] = d.ptr]
          /\ last' = [op |-> "dup", json |-> json, value |-> d.ptr]
          /\ dup' = [src |-> json, dst |-> d.ptr]
  /\ UNCHANGED parseVars

\* MTY_JSONDestroy(&refs[r])
Destroy(r) ==
  /\ Running
  /\ LET d == MTY_JSONDestroy(heap, refs[r])
     IN /\ heap' = d.h
        /\ refs' = [refs EXCEPT ![r] = d.ref]
  /\ last' = NoCall
  /\ UNCHANGED <<dup, parseVars>>

\* MTY_JSONObjGet<kind>(json, k, &out)
ObjGet(json, kind, k, size) ==
  /\ Running
  /\ LET g == Getter(kind, heap, MTY_JSONObjGetItem(heap, json, k),
                     Out0(kind), size)
     IN last' = [op |-> "get", by |-> "key", json |-> json, key |-> k,
                 kind |-> kind, size |-> size, ret |-> g.ret,
                 out0 |-> Out0(kind), out |-> g.out]
  /\ UNCHANGED <<heap, refs, dup, parseVars>>

\* MTY_JSONArrayGet<kind>(json, index, &out)
ArrayGet(json, kind, index, size) ==
  /\ Running
  /\ LET g == Getter(kind, heap, MTY_JSONArrayGetItem(heap, json, index),
                     Out0(kind), size)
     IN last' = [op |-> "get", by |-> "index", json |-> json, index |-> index,
                 kind |-> kind, size |-> size, ret |-> g.ret,
                 out0 |-> Out0(kind), out |-> g.out]
  /\ UNCHANGED <<heap, refs, dup, parseVars>>

\* text = MTY_JSONSerialize(json)
Serialize(json) ==
  /\ Running
  /\ last' = [op |-> "serialize", json |-> json,
              text |-> MTY_JSONSerialize(heap, json)]
  /\ UNCHANGED <<heap, refs, dup, parseVars>>

TreeInit ==
  /\ heap = <<>>
  /\ refs = [r \in 1..NRefs |-> NULL]
  /\ last = NoCall
  /\ dup = NoDup
  /\ input = <<>>
  /\ orig = None
  /\ pc = "done"
  /\ x = 0
  /\ spos = 1
  /\ stack = <<>>
  /\ kv = <<>>
  /\ key = NullStr
  /\ iter = 0
  /\ adv = 0
  /\ ub = "no"
  /\ result = NULL

\* the calls that build, change and destroy trees
Mutate ==
  \/ \E r \in 1..NRefs : ObjCreate(r)
  \/ \E r \in 1..NRefs : ArrayCreate(r)
  \/ \E json \in Targets, k \in Keys, r \in 1..NRefs : ObjSetItem(json, k, r)
  \/ \E json \in Targets, r \in 1..NRefs : ArrayAppendItem(json, r)
  \/ \E json \in Targets, kind \in SetKinds, k \in Keys :
       \E val \in SetValues(kind) : ObjSetTyped(json, kind, k, val)
  \/ \E json \in Targets, k \in Keys : ObjDeleteItem(json, k)
  \/ \E json \in Targets, r \in 1..NRefs : Duplicate(json, r)
  \/ \E r \in 1..NRefs : Destroy(r)

\* the getters and the serializer
Read ==
  \/ \E json \in Targets, kind \in ObjGetKinds, k \in Keys, size \in BufSizes :
       ObjGet(json, kind, k, size)
  \/ \E json \in Targets, kind \in ArrayGetKinds, index \in 0..1,
        size \in BufSizes :
       ArrayGet(json, kind, index, size)
  \/ \E json \in Targets : Serialize(json)

TreeNext == Mutate

\* a client that builds trees of MaxReadNodes nodes and reads them
ReadNext == (Mutate /\ Len(heap') <= MaxReadNodes) \/ Read

SpecTree == TreeInit /\ [][TreeNext]_vars

SpecRead == TreeInit /\ [][ReadNext]_vars

----------------------------------------------------------------------------
(* Properties of the parser, under SpecParse *)

Containers(h) == {p \in 1..Len(h) : h[p].type \in {JSON_OBJECT, JSON_ARRAY}}

Children(h, p) ==
  CASE h[p].type = JSON_OBJECT -> Range(HashValues(h[p].object))
    [] h[p].type = JSON_ARRAY -> Range(h[p].elements)
    [] OTHER -> {}

\* C1: every container the parser has opened is attached: it is the root
\* (stack[0]) or a child of another container; and when the input starts
\* with a container, MTY_JSONParse returns that first container.
C1_AttachmentRule ==
  /\ \A p \in Containers(heap) :
       stack[0] = p \/ \E q \in 1..Len(heap) : p \in Children(heap, q)
  /\ (pc = "done" /\ input # <<>> /\ input[1] \in {"{", "["}) => result = 1

\* C2: every iteration of the scan loop moves the input position forward by
\* at least one character.
C2_EveryIterationAdvances == iter > 0 => adv >= 1

\* C3: no iteration indexes stack or kv outside their 128 entries.
C3_StackIndicesInBounds == ub # "index"

RECURSIVE Count(_, _)
\* how many characters of text are in set
Count(text, set) ==
  IF text = <<>> THEN 0
  ELSE (IF Head(text) \in set THEN 1 ELSE 0) + Count(Tail(text), set)

\* a closing bracket with no container open before it
UnmatchedClose(text) ==
  \E i \in 1..Len(text) :
    /\ text[i] \in {"}", "]"}
    /\ Count(SubSeq(text, 1, i - 1), {"{", "["})
         <= Count(SubSeq(text, 1, i - 1), {"}", "]"})

\* a string literal that is never closed
TruncatedString(text) == Count(text, {QUOTE}) % 2 = 1

Malformed(text) ==
  text = <<>> \/ UnmatchedClose(text) \/ TruncatedString(text)

\* C4: the stack position never goes below its base, and a malformed,
\* truncated or empty input makes MTY_JSONParse return none.
C4_ErrorPolicy ==
  /\ spos >= 1
  /\ (pc = "done" /\ orig = None /\ Malformed(input)) => result = NULL

Leaf(type, b, n, str) ==
  [None EXCEPT !.type = type, !.boolean = b, !.number = n, !.string = str]

\* what the specification says the scalar inputs parse to
ScalarExpected ==
  {<<(<<"t", "r", "u", "e">>), Leaf(JSON_BOOLEAN, TRUE, 0, <<>>)>>,
   <<(<<"f", "a", "l", "s", "e">>), Leaf(JSON_BOOLEAN, FALSE, 0, <<>>)>>,
   <<(<<"n", "u", "l", "l">>), Leaf(JSON_NULL, FALSE, 0, <<>>)>>,
   <<(<<"1">>), Leaf(JSON_NUMBER, FALSE, 1, <<>>)>>,
   <<(<<"-", "1">>), Leaf(JSON_NUMBER, FALSE, -1, <<>>)>>,
   <<(<<QUOTE, "a", "b", QUOTE>>), Leaf(JSON_STRING, FALSE, 0, <<"a", "b">>)>>}

SpecExampleExpected ==
  [None EXCEPT
     !.type = JSON_OBJECT,
     !.members =
       {<<(<<"a">>), Leaf(JSON_BOOLEAN, TRUE, 0, <<>>)>>,
        <<(<<"b">>),
          [None EXCEPT !.type = JSON_ARRAY,
                       !.elements = <<Leaf(JSON_NUMBER, FALSE, 1, <<>>),
                                      Leaf(JSON_NUMBER, FALSE, 2, <<>>),
                                      Leaf(JSON_NUMBER, FALSE, 3, <<>>)>>]>>}]

\* C5: once the one iteration that reads a top-level scalar has run, the
\* root is the Value of the matching variant, and that is what is returned;
\* the example {"a":true,"b":[1,2,3]} returns the Object the spec describes.
C5_ScalarsParse ==
  /\ \A e \in ScalarExpected :
       (orig = None /\ input = e[1] /\ (iter > 0 \/ pc = "done")) =>
         /\ Tree(heap, stack[0]) = e[2]
         /\ pc = "done" => Tree(heap, result) = e[2]
  /\ (orig = None /\ input = SpecExample /\ pc = "done") =>
       Tree(heap, result) = SpecExampleExpected

\* C9: parsing the text MTY_JSONSerialize returns for a tree of Booleans,
\* Strings, Arrays and Objects returns a tree equal to it (members compared
\* without order).
C9_RoundTrip == (orig # None /\ pc = "done") => Tree(heap, result) = orig

----------------------------------------------------------------------------
(* Properties of the value model (under SpecTree) and of the accessors and *)
(* the serializer (under SpecRead)                                         *)

\* C6: the tree MTY_JSONDuplicate returns is equal to its argument: same
\* variants, payloads, elements in order, members by key.
C6_DuplicateEqual ==
  last.op = "dup" => Tree(heap, last.value) = Tree(heap, last.json)

\* C7: a getter that returns false leaves the caller's output parameter as it
\* was before the call.
C7_GetterContract ==
  (last.op = "get" /\ ~last.ret) => last.out = last.out0

RECURSIVE Canonical(_, _)
RECURSIVE CanonicalMembers(_, _, _)
RECURSIVE CanonicalElements(_, _, _)

\* "key":value of the members from the i-th on, separated by commas
CanonicalMembers(h, p, i) ==
  IF i > Len(h[p].object) THEN <<>>
  ELSE (IF i > 1 THEN <<",">> ELSE <<>>)
         \o <<QUOTE>> \o h[p].object[i].key \o <<QUOTE, ":">>
         \o Canonical(h, h[p].object[i].val) \o CanonicalMembers(h, p, i + 1)

\* the elements from the i-th on, separated by commas
CanonicalElements(h, p, i) ==
  IF i > Len(h[p].elements) THEN <<>>
  ELSE (IF i > 1 THEN <<",">> ELSE <<>>)
         \o Canonical(h, h[p].elements[i]) \o CanonicalElements(h, p, i + 1)

\* the canonical compact text of the tree at p
Canonical(h, p) ==
  CASE h[p].type = JSON_BOOLEAN ->
         IF h[p].boolean THEN <<"t", "r", "u", "e">>
         ELSE <<"f", "a", "l", "s", "e">>
    [] h[p].type = JSON_NUMBER -> FormatF(h[p].number)
    [] h[p].type = JSON_STRING -> <<QUOTE>> \o h[p].string \o <<QUOTE>>
    [] h[p].type = JSON_NULL -> <<"n", "u", "l", "l">>
    [] h[p].type = JSON_OBJECT -> <<"{">> \o CanonicalMembers(h, p, 1) \o <<"}">>
    [] h[p].type = JSON_ARRAY -> <<"[">> \o CanonicalElements(h, p, 1) \o <<"]">>

\* C8: the text MTY_JSONSerialize returns, read up to its terminator, is the
\* canonical form of the tree: brackets, members or elements, separators.
C8_SerializeCanonical ==
  (last.op = "serialize" /\ last.json # NULL) =>
    CStr(last.text) = Canonical(heap, last.json)

\* the source and the result of the last duplicate are both wholly alive
DupAlive ==
  /\ dup.dst # NULL
  /\ Reach(heap, dup.src) \subseteq Live(heap)
  /\ Reach(heap, dup.dst) \subseteq Live(heap)

DupDisjoint == Reach(heap, dup.src) \cap Reach(heap, dup.dst) = {}

\* this step is a call that mutates or destroys a node of the tree at p
MutatesTree(p) ==
  \/ \E json \in Reach(heap, p) :
       \/ \E k \in Keys, r \in 1..NRefs : ObjSetItem(json, k, r)
       \/ \E r \in 1..NRefs : ArrayAppendItem(json, r)
       \/ \E kind \in SetKinds, k \in Keys :
            \E val \in SetValues(kind) : ObjSetTyped(json, kind, k, val)
       \/ \E k \in Keys : ObjDeleteItem(json, k)
  \/ \E r \in 1..NRefs : refs[r] = p /\ Destroy(r)

\* this step leaves the tree at p as it was, and none of its nodes freed
TreeKept(p) ==
  /\ Tree(heap', p) = Tree(heap, p)
  /\ Reach(heap', p) = Reach(heap, p)
  /\ Reach(heap, p) \subseteq Live(heap')

\* C10: MTY_JSONDuplicate returns a tree that shares no node with its
\* argument, and while the two stay apart, a call that sets, appends, deletes
\* in or destroys one of them leaves the other unchanged and alive.
C10_DuplicateIndependent ==
  /\ [](last.op = "dup" => DupDisjoint)
  /\ [][(DupAlive /\ DupDisjoint) =>
          /\ MutatesTree(dup.dst) => TreeKept(dup.src)
          /\ MutatesTree(dup.src) => TreeKept(dup.dst)]_vars

\* a state where the duplicate of an Object has been given a member its
\* source does not have, the source being alive
C10_Witness ==
  /\ DupAlive
  /\ DupDisjoint
  /\ last = NoCall
  /\ heap[dup.src].type = JSON_OBJECT
  /\ heap[dup.dst].type = JSON_OBJECT
  /\ \E k \in Keys : /\ MTY_JSONObjGetItem(heap, dup.dst, k) # NULL
                     /\ MTY_JSONObjGetItem(heap, dup.src, k) = NULL

\* no node has been released more than once
FreedAtMostOnce == \A p \in 1..Len(heap) : heap[p].freed <= 1

\* every Object holds at most one entry per key
OneEntryPerKey ==
  \A p \in Live(heap) :
    heap[p].type = JSON_OBJECT =>
      \A i, j \in 1..Len(heap[p].object) :
        heap[p].object[i].key = heap[p].object[j].key => i = j

\* this step has installed new under k in the Object json: k has one entry,
\* it holds new, every other key holds what it held, the Value k held before
\* is released once with all its descendants and is out of the tree, and
\* nothing else is released
ReplaceOnKey(json, k, new) ==
  LET old == MTY_JSONObjGetItem(heap, json, k)
  IN /\ Cardinality({i \in 1..Len(heap'[json].object) :
                       heap'[json].object[i].key = k}) = 1
     /\ MTY_JSONObjGetItem(heap', json, k) = new
     /\ new \in Live(heap')
     /\ \A k2 \in Keys \ {k} :
          MTY_JSONObjGetItem(heap', json, k2) = MTY_JSONObjGetItem(heap, json, k2)
     /\ \A p \in Reach(heap, old) : heap[p].freed = 0 /\ heap'[p].freed = 1
     /\ Reach(heap, old) \cap Reach(heap', json) = {}
     /\ \A p \in (1..Len(heap)) \ Reach(heap, old) : heap'[p].freed = heap[p].freed

\* C11: a set under a key of an Object (MTY_JSONObjSetItem or a typed setter)
\* leaves exactly one Value under that key, the one just set; the Value it
\* replaced is destroyed exactly once and is no longer reachable from the
\* Object; no node is ever released twice.
C11_ReplaceOnKey ==
  /\ [](FreedAtMostOnce /\ OneEntryPerKey)
  /\ [][\A json \in Live(heap), k \in Keys :
          heap[json].type = JSON_OBJECT =>
            /\ \A r \in 1..NRefs :
                 (refs[r] # NULL /\ ObjSetItem(json, k, r)) =>
                   ReplaceOnKey(json, k, refs[r])
            /\ \A kind \in SetKinds : \A val \in SetValues(kind) :
                 ObjSetTyped(json, kind, k, val) =>
                   ReplaceOnKey(json, k, NewPtr(heap))]_vars

\* an Object whose key holds a live Value allocated after a Value that has
\* been released: the key was set, and set again
C11_Witness ==
  /\ last = NoCall
  /\ \E json \in Live(heap), k \in Keys :
       /\ heap[json].type = JSON_OBJECT
       /\ Len(heap[json].object) = 1
       /\ MTY_JSONObjGetItem(heap, json, k) \in Live(heap)
       /\ \E p \in 1..Len(heap) :
            /\ heap[p].freed = 1
            /\ json < p
            /\ p < MTY_JSONObjGetItem(heap, json, k)

\* the live Arrays
Arrays(h) == {p \in Live(h) : h[p].type = JSON_ARRAY}

\* MTY_JSONArrayGetItem returns a Value at the indices below the length and
\* none at the indices from the length on
ItemsBelowLength ==
  \A json \in Arrays(heap) :
    \A i \in 0..MaxNodes :
      (MTY_JSONArrayGetItem(heap, json, i) # NULL)
        <=> (i < MTY_JSONArrayGetLength(heap, json))

\* this step has appended value to the Array json: one element more, the
\* elements it had where they were, value after them
AppendedLast(json, value) ==
  LET n == MTY_JSONArrayGetLength(heap, json)
  IN /\ MTY_JSONArrayGetLength(heap', json) = n + 1
     /\ \A i \in 0..(n - 1) :
          MTY_JSONArrayGetItem(heap', json, i) = MTY_JSONArrayGetItem(heap, json, i)
     /\ MTY_JSONArrayGetItem(heap', json, n) = value
     /\ MTY_JSONArrayGetItem(heap', json, n + 1) = NULL

\* C12: a fresh Array has length 0; each MTY_JSONArrayAppendItem with a
\* non-null value makes the length one more, leaves the elements already
\* present at their indices and puts the new one at the last index;
\* MTY_JSONArrayGetItem returns none from the length on; no call removes or
\* reorders the elements of an Array that stays alive.
C12_ArraysGrowInOrder ==
  /\ [](ItemsBelowLength)
  /\ [][/\ \A r \in 1..NRefs :
             ArrayCreate(r) => MTY_JSONArrayGetLength(heap', refs'[r]) = 0
        /\ \A json \in Arrays(heap), r \in 1..NRefs :
             (refs[r] # NULL /\ ArrayAppendItem(json, r)) =>
               AppendedLast(json, refs[r])
        /\ \A json \in Arrays(heap) \cap Live(heap') :
             /\ Len(heap'[json].elements) >= Len(heap[json].elements)
             /\ SubSeq(heap'[json].elements, 1, Len(heap[json].elements))
                  = heap[json].elements]_vars

\* an Array that three Values were appended to, in the order they were made
C12_Witness ==
  /\ last = NoCall
  /\ \E json \in Arrays(heap) :
       /\ MTY_JSONArrayGetLength(heap, json) = 3
       /\ \A i \in 0..2 : MTY_JSONArrayGetItem(heap, json, i) \in Live(heap)
       /\ MTY_JSONArrayGetItem(heap, json, 0) < MTY_JSONArrayGetItem(heap, json, 1)
       /\ MTY_JSONArrayGetItem(heap, json, 1) < MTY_JSONArrayGetItem(heap, json, 2)
       /\ MTY_JSONArrayGetItem(heap, json, 3) = NULL

\* what MTY_JSONObjGet<kind>(json, k, &out, size) returns in the state this
\* step leads to
GetAfter(json, kind, k, size) ==
  Getter(kind, heap', MTY_JSONObjGetItem(heap', json, k), Out0(kind), size)

\* C13: after MTY_JSONObjSetString, MTY_JSONObjSetBool or MTY_JSONObjSetInt
\* on an Object and a key, the getter of the same kind on that Object and key
\* returns true and yields the value that was set (the string in a buffer
\* larger than it), whatever the key held before.
C13_TypedSetThenGet ==
  [][\A json \in Live(heap), k \in Keys :
       heap[json].type = JSON_OBJECT =>
         \A kind \in {"string", "bool", "int"} : \A val \in SetValues(kind) :
           ObjSetTyped(json, kind, k, val) =>
             \A size \in {n \in BufSizes : kind = "string" => n > Len(val)} :
               GetAfter(json, kind, k, size) = [ret |-> TRUE, out |-> val]]_vars

\* an Object whose key was set to a String after the Value it held first
\* was released, and from which the string getter reads that String
C13_Witness ==
  /\ last = NoCall
  /\ \E json \in Live(heap), k \in Keys, val \in Strings, size \in BufSizes :
       /\ heap[json].type = JSON_OBJECT
       /\ size > Len(val)
       /\ Getter("string", heap, MTY_JSONObjGetItem(heap, json, k),
                 Out0("string"), size) = [ret |-> TRUE, out |-> val]
       /\ \E p \in 1..Len(heap) :
            /\ heap[p].freed = 1
            /\ json < p
            /\ p < MTY_JSONObjGetItem(heap, json, k)
       /\ \E k2 \in Keys \ {k} :
            /\ MTY_JSONObjGetItem(heap, json, k2) # NULL
            /\ heap[MTY_JSONObjGetItem(heap, json, k2)].type = JSON_NUMBER

\* this step has destroyed the tree at the caller's reference r: the root and
\* every descendant, alive before, are released once, no other node is
\* touched, the reference is null and no other reference changes
DestroyedOnce(r) ==
  /\ refs'[r] = NULL
  /\ \A q \in (1..NRefs) \ {r} : refs'[q] = refs[q]
  /\ \A p \in Reach(heap, refs[r]) : heap[p].freed = 0 /\ heap'[p].freed = 1
  /\ \A p \in (1..Len(heap)) \ Reach(heap, refs[r]) : heap'[p] = heap[p]
  /\ Len(heap') = Len(heap)

\* C14: MTY_JSONDestroy releases the root and every descendant of the tree
\* exactly once and nulls the caller's reference; called on a null reference
\* (the nulled one, or any other) it changes nothing and releases nothing;
\* no node is ever released twice.
C14_DestroyOnce ==
  /\ [](\A p \in 1..Len(heap) : heap[p].freed \in {0, 1})
  /\ [](MTY_JSONDestroy(heap, NULL) = [h |-> heap, ref |-> NULL])
  /\ [][\A r \in 1..NRefs :
          Destroy(r) =>
            /\ refs[r] = NULL => (heap' = heap /\ refs' = refs)
            /\ refs[r] # NULL => DestroyedOnce(r)
            /\ MTY_JSONDestroy(heap', refs'[r]) = [h |-> heap', ref |-> NULL]]_vars

\* every tree the caller held has been destroyed: three nodes, each released
\* once, and every reference of the caller null
C14_Witness ==
  /\ last = NoCall
  /\ Len(heap) = 3
  /\ \A p \in 1..Len(heap) : heap[p].freed = 1
  /\ \A r \in 1..NRefs : refs[r] = NULL

\* the arguments MTY_JSONObjSetItem / MTY_JSONArrayAppendItem must ignore
InvalidSet(json, value) ==
  json = NULL \/ value = NULL \/ heap[json].type # JSON_OBJECT

InvalidAppend(json, value) ==
  json = NULL \/ value = NULL \/ heap[json].type # JSON_ARRAY

\* C15: MTY_JSONObjSetItem and MTY_JSONArrayAppendItem called with a null
\* target, a null value or a target of the other container type change no
\* node of the heap: every tree keeps its keys, its elements and its length.
C15_InvalidArgsNoOp ==
  \A json \in Targets, value \in Targets :
    /\ InvalidSet(json, value) =>
         \A k \in Keys : MTY_JSONObjSetItem(heap, json, k, value) = heap
    /\ InvalidAppend(json, value) =>
         MTY_JSONArrayAppendItem(heap, json, value) = heap

\* the caller holds an Array with an element and an Object with a member:
\* a set on the Array and an append to the Object are calls on a target of
\* the other container type
C15_Witness ==
  /\ last = NoCall
  /\ \E r1, r2 \in 1..NRefs :
       /\ refs[r1] \in Arrays(heap)
       /\ MTY_JSONArrayGetLength(heap, refs[r1]) = 1
       /\ refs[r2] \in Live(heap)
       /\ heap[refs[r2]].type = JSON_OBJECT
       /\ Len(heap[refs[r2]].object) = 1
       /\ InvalidSet(refs[r1], refs[r2])
       /\ InvalidAppend(refs[r2], refs[r1])

\* C16: MTY_JSONSerialize called with a null tree returns exactly the text
\* null, and the text it returns for a Null Value is that same text.
C16_SerializeNone ==
  last.op = "serialize" =>
    /\ last.json = NULL => CStr(last.text) = <<"n", "u", "l", "l">>
    /\ (last.json # NULL /\ heap[last.json].type = JSON_NULL) =>
         CStr(last.text) = CStr(MTY_JSONSerialize(heap, NULL))

\* MTY_JSONSerialize has been called with a null tree, in a heap that holds
\* a Null Value
C16_Witness ==
  /\ last.op = "serialize"
  /\ last.json = NULL
  /\ \E p \in Live(heap) : heap[p].type = JSON_NULL

----------------------------------------------------------------------------
(* Properties of the parser's frames and keys, under SpecParse *)

\* the frame at stack slot i is an Object
ObjectFrame(i) == stack[i] # NULL /\ heap[stack[i]].type = JSON_OBJECT

\* C17: the expecting-a-key flag is set only in a frame that is an Object
\* (a comma sets it in no other frame), and the string literals of an Array,
\* those after a comma included, are its String elements in input order.
C17_CommaKeyFlag ==
  /\ \A i \in 0..(StackSize - 1) : kv[i] => ObjectFrame(i)
  /\ (orig = None /\ input = ArrayExample /\ pc = "done") =>
       Tree(heap, result) =
         [None EXCEPT !.type = JSON_ARRAY,
                      !.elements = <<Leaf(JSON_STRING, FALSE, 0, <<"a">>),
                                     Leaf(JSON_STRING, FALSE, 0, <<"b">>)>>]

\* C18: in an Object frame expecting a key the next string literal becomes
\* the pending key and that step clears the frame's flag (on the example
\* {"a":true,...} the second iteration leaves "a" pending and the flag
\* cleared); a key is pending only while its frame is an Object that is not
\* expecting a key, and it is gone once the parser has returned.
C18_PendingKeyProtocol ==
  /\ (orig = None /\ input = SpecExample /\ iter = 2 /\ ub = "no") =>
       /\ key = Str(<<"a">>)
       /\ ObjectFrame(Top(spos))
       /\ ~kv[Top(spos)]
  /\ (~key.null /\ ub = "no") => (ObjectFrame(Top(spos)) /\ ~kv[Top(spos)])
  /\ pc = "done" => key.null

\* C19: on the input of 128 nested Arrays no stack write falls outside the
\* stack, and a write outside the stack happens only with all of its 128
\* entries holding open containers.
C19_StackHolds128 ==
  /\ input = Nest128 => ub # "index"
  /\ (ub = "index" /\ spos = StackSize) =>
       Cardinality({i \in 0..(StackSize - 1) : stack[i] # NULL}) = StackSize

----------------------------------------------------------------------------
(* Ownership, under SpecTree and SpecParse *)

\* how many owners the node p has: the caller's references and the returned
\* root that point to it, and the member and element slots that hold it
Owners(p) ==
  Cardinality({r \in DOMAIN refs : refs[r] = p})
    + (IF result = p THEN 1 ELSE 0)
    + Cardinality({<<q, i>> \in Live(heap) \X (1..Len(heap)) :
                     \/ /\ heap[q].type = JSON_OBJECT
                        /\ i <= Len(heap[q].object)
                        /\ heap[q].object[i].val = p
                     \/ /\ heap[q].type = JSON_ARRAY
                        /\ i <= Len(heap[q].elements)
                        /\ heap[q].elements[i] = p})

\* C20: once a call has returned, every Value that is not destroyed has
\* exactly one owner: a parent Array or Object, or the caller holding it as
\* a root.
C20_SingleOwner ==
  (pc = "done" /\ ub = "no") => \A p \in Live(heap) : Owners(p) = 1

====
